---- MODULE Spec2Model ----
(***************************************************************************)
(* Task lifecycle of JS-TaskManager: the Task entity                       *)
(* (domain/entities/Task.js), the TaskStatus value object                  *)
(* (domain/valueobjects/TaskStatus.js), the SQL task repository, the      *)
(* ChangeTaskStatusUseCase that drives the entity, and the read use cases  *)
(* (task list, statistics, single task) with their auto-transition pass.   *)
(*                                                                         *)
(* JavaScript values are modelled as follows.  A string whose content is   *)
(* irrelevant (title, description) is the record [len, trim]: its length   *)
(* and its length after String.prototype.trim().  A Date is an integer     *)
(* instant in Times; null, unparsable and undefined dates are NullDate,    *)
(* InvalidDate and UndefinedDate.                                          *)
(***************************************************************************)
EXTENDS Integers, Sequences, FiniteSets, TLC

VARIABLES now, task, last, repo, response, inflight

vars == <<now, task, last, repo, response, inflight>>

(* ---------------- bounds ---------------- *)
MaxTime == 2
Times == 1..MaxTime

(* ---------------- JavaScript values ---------------- *)
Undefined == "undefined"

(* Strings: [kind, len, trim]; kind tells a string from undefined/null. *)
Str(l, t) == [kind |-> "string", len |-> l, trim |-> t]
UndefinedStr == [kind |-> "undefined", len |-> 0, trim |-> 0]
NullStr == [kind |-> "null", len |-> 0, trim |-> 0]
EmptyString == Str(0, 0)
trim(s) == Str(s.trim, s.trim)
Falsy(s) == s.kind # "string" \/ s.len = 0

(* Dates: an instant of Times, or null, an unparsable value, undefined. *)
NullDate == 0
InvalidDate == 0 - 1
UndefinedDate == 0 - 2
IsValidDate(d) == d \in Times

(* Identifiers (task ids, user ids) are strings; the entity's id is null  *)
(* until the repository assigns one.                                      *)
NullId == "null"

(* ---------------- DomainException kinds ---------------- *)
NoError == "none"
ValidationError == "ValidationError"
BusinessRuleViolation == "BusinessRuleViolation"
EntityNotFound == "EntityNotFound"
Unauthorized == "Unauthorized"

MaxTitleLength == 200
MaxDescriptionLength == 1000

(* ---------------- TaskStatus ---------------- *)
TaskStatus_PENDING == "PENDING"
TaskStatus_IN_PROGRESS == "IN_PROGRESS"
TaskStatus_COMPLETED == "COMPLETED"
(* The class has no static member SCHEDULED, FAILED or CANCELLED: reading  *)
(* one evaluates to undefined.                                             *)
TaskStatus_SCHEDULED == Undefined
TaskStatus_FAILED == Undefined
TaskStatus_CANCELLED == Undefined

(* The six tags of the status column (CK_Tasks_Status). *)
StatusTags == {"SCHEDULED", "PENDING", "IN_PROGRESS", "COMPLETED", "FAILED", "CANCELLED"}

getAllStatuses_sixTags == StatusTags
getAllStatuses == {TaskStatus_PENDING, TaskStatus_IN_PROGRESS, TaskStatus_COMPLETED}

isValid(status) == status \in getAllStatuses


(* ---------------- Task entity ---------------- *)
Ok(t) == [t |-> t, err |-> NoError]
Throw(t, e) == [t |-> t, err |-> e]

(* validateTitle: the error it throws, or NoError. *)
validateTitle(title) ==
    IF Falsy(title) THEN ValidationError
    ELSE IF title.trim = 0 THEN ValidationError
    ELSE IF title.len > MaxTitleLength THEN ValidationError
    ELSE NoError

validateUserId(userId) == IF userId = Undefined THEN ValidationError ELSE NoError

validateStatus(status) == IF ~isValid(status) THEN ValidationError ELSE NoError

(* validateDeadline(deadline, startDate); startDate NullDate when omitted. *)
validateDeadline(deadline, startDate) ==
    IF deadline \in {NullDate, UndefinedDate} THEN NoError
    ELSE IF ~IsValidDate(deadline) THEN ValidationError
    ELSE IF IsValidDate(startDate) /\ deadline < startDate THEN ValidationError
    ELSE NoError

(* new Task(title, description, userId, startDate, deadline) at instant clk. *)
effectiveStartDate(startDate, clk) == IF IsValidDate(startDate) THEN startDate ELSE clk

Construct(title, description, userId, startDate, deadline, clk) ==
    LET eff == effectiveStartDate(startDate, clk)
        t == [id |-> NullId,
              title |-> trim(title),
              description |-> IF Falsy(description) THEN EmptyString ELSE trim(description),
              status |-> IF eff > clk THEN TaskStatus_SCHEDULED ELSE TaskStatus_PENDING,
              userId |-> userId,
              startDate |-> eff,
              deadline |-> IF deadline = UndefinedDate THEN NullDate ELSE deadline,
              createdAt |-> clk,
              updatedAt |-> clk]
    IN  IF validateTitle(title) # NoError THEN Throw(t, ValidationError)
        ELSE IF validateUserId(userId) # NoError THEN Throw(t, ValidationError)
        ELSE IF validateDeadline(deadline, eff) # NoError THEN Throw(t, ValidationError)
        ELSE Ok(t)

(* Task.reconstruct: no validation, fields taken as given. *)
reconstruct(id, title, description, status, userId, startDate, deadline, createdAt, updatedAt) ==
    [id |-> id, title |-> title, description |-> description, status |-> status,
     userId |-> userId, startDate |-> startDate, deadline |-> deadline,
     createdAt |-> createdAt, updatedAt |-> updatedAt]

updateTitle(t, newTitle, clk) ==
    IF validateTitle(newTitle) # NoError THEN Throw(t, ValidationError)
    ELSE Ok([t EXCEPT !.title = trim(newTitle), !.updatedAt = clk])

updateDescription(t, newDescription, clk) ==
    Ok([t EXCEPT !.description = IF Falsy(newDescription) THEN EmptyString
                                 ELSE trim(newDescription),
                 !.updatedAt = clk])

updateStatus_noCompletedRule(t, newStatus, clk) ==
    IF validateStatus(newStatus) # NoError THEN Throw(t, ValidationError)
    ELSE Ok([t EXCEPT !.status = newStatus, !.updatedAt = clk])

updateStatus_validateLast(t, newStatus, clk) ==
    IF t.status = TaskStatus_COMPLETED /\ newStatus = TaskStatus_PENDING
    THEN Throw(t, BusinessRuleViolation)
    ELSE IF newStatus = TaskStatus_FAILED /\ t.status # TaskStatus_FAILED
         THEN Throw(t, BusinessRuleViolation)
    ELSE IF newStatus = TaskStatus_CANCELLED
         THEN Throw(t, BusinessRuleViolation)
    ELSE IF validateStatus(newStatus) # NoError THEN Throw(t, ValidationError)
    ELSE Ok([t EXCEPT !.status = newStatus, !.updatedAt = clk])

updateStatus(t, newStatus, clk) ==
    IF validateStatus(newStatus) # NoError THEN Throw(t, ValidationError)
    ELSE IF t.status = TaskStatus_COMPLETED /\ newStatus = TaskStatus_PENDING
         THEN Throw(t, BusinessRuleViolation)
    ELSE IF newStatus = TaskStatus_FAILED /\ t.status # TaskStatus_FAILED
         THEN Throw(t, BusinessRuleViolation)
    ELSE IF newStatus = TaskStatus_CANCELLED
         THEN Throw(t, BusinessRuleViolation)
    ELSE Ok([t EXCEPT !.status = newStatus, !.updatedAt = clk])

updateStartDate_noDeadlineCheck(t, newStartDate, clk) ==
    IF ~IsValidDate(newStartDate) THEN Throw(t, ValidationError)
    ELSE Ok([t EXCEPT !.startDate = newStartDate, !.updatedAt = clk])

updateStartDate(t, newStartDate, clk) ==
    IF ~IsValidDate(newStartDate) THEN Throw(t, ValidationError)
    ELSE IF t.deadline # NullDate /\ IsValidDate(t.deadline) /\ newStartDate > t.deadline
         THEN Throw(t, ValidationError)
    ELSE Ok([t EXCEPT !.startDate = newStartDate, !.updatedAt = clk])

updateDeadline(t, newDeadline, clk) ==
    IF newDeadline \notin {NullDate, UndefinedDate}
    THEN IF validateDeadline(newDeadline, t.startDate) # NoError
         THEN Throw(t, ValidationError)
         ELSE Ok([t EXCEPT !.deadline = newDeadline, !.updatedAt = clk])
    ELSE Ok([t EXCEPT !.deadline = NullDate, !.updatedAt = clk])

(* update(title, description, status, startDate, deadline): the setters of *)
(* the provided fields in order; a throwing setter ends the call and the   *)
(* fields set before it stay set.                                          *)
update(t, title, description, status, startDate, deadline, clk) ==
    LET r1 == IF title.kind = "string" THEN updateTitle(t, title, clk) ELSE Ok(t)
        r2 == IF r1.err # NoError THEN r1
              ELSE IF description.kind # "undefined"
                   THEN updateDescription(r1.t, description, clk) ELSE r1
        r3 == IF r2.err # NoError THEN r2
              ELSE IF status # Undefined THEN updateStatus(r2.t, status, clk) ELSE r2
        r4 == IF r3.err # NoError THEN r3
              ELSE IF startDate \notin {UndefinedDate, NullDate}
                   THEN updateStartDate(r3.t, startDate, clk) ELSE r3
        r5 == IF r4.err # NoError THEN r4
              ELSE IF deadline # UndefinedDate
                   THEN updateDeadline(r4.t, deadline, clk) ELSE r4
    IN  IF r5.err # NoError THEN r5 ELSE Ok([r5.t EXCEPT !.updatedAt = clk])

markAsInProgress_noGuard(t, clk) ==
    Ok([t EXCEPT !.status = TaskStatus_IN_PROGRESS, !.updatedAt = clk])

markAsInProgress(t, clk) ==
    IF t.status = TaskStatus_COMPLETED THEN Throw(t, BusinessRuleViolation)
    ELSE Ok([t EXCEPT !.status = TaskStatus_IN_PROGRESS, !.updatedAt = clk])

markAsCompleted(t, clk) ==
    Ok([t EXCEPT !.status = TaskStatus_COMPLETED, !.updatedAt = clk])

markAsFailed_failedTag(t, clk) ==
    IF t.status = TaskStatus_COMPLETED THEN Ok(t)
    ELSE IF t.status = "FAILED" THEN Ok(t)
    ELSE Ok([t EXCEPT !.status = "FAILED", !.updatedAt = clk])

markAsFailed(t, clk) ==
    IF t.status = TaskStatus_COMPLETED THEN Ok(t)
    ELSE IF t.status = TaskStatus_FAILED THEN Ok(t)
    ELSE Ok([t EXCEPT !.status = TaskStatus_FAILED, !.updatedAt = clk])

reopen(t, clk) ==
    IF t.status = TaskStatus_COMPLETED
    THEN Ok([t EXCEPT !.status = TaskStatus_IN_PROGRESS, !.updatedAt = clk])
    ELSE IF t.status = TaskStatus_FAILED
         THEN Throw(t, BusinessRuleViolation)
    ELSE Ok([t EXCEPT !.status = TaskStatus_PENDING, !.updatedAt = clk])

cancelTask(t, clk) ==
    IF t.status = TaskStatus_CANCELLED THEN Ok(t)
    ELSE Ok([t EXCEPT !.status = TaskStatus_CANCELLED, !.updatedAt = clk])

belongsToUser(t, userId) == t.userId = userId

shouldBeMarkedAsFailed(t, clk) ==
    IF t.deadline = NullDate THEN FALSE
    ELSE IF t.status = TaskStatus_COMPLETED THEN FALSE
    ELSE IF t.status = TaskStatus_FAILED THEN FALSE
    ELSE IF t.status = TaskStatus_CANCELLED THEN FALSE
    ELSE clk > t.deadline

shouldTransitionToPending(t, clk) ==
    IF t.status # TaskStatus_SCHEDULED THEN FALSE
    ELSE t.startDate <= clk


(* ---------------- inputs ---------------- *)
UserIds == {"u1", "u2"}
TaskIds == {"t1"}
MissingTaskId == "t9"

TitleInputs == {UndefinedStr, Str(0, 0), Str(2, 0), Str(3, 1), Str(MaxTitleLength + 1, MaxTitleLength + 1)}
DescriptionInputs ==
    {UndefinedStr, NullStr, Str(2, 0), Str(3, 1),
     Str(MaxDescriptionLength + 1, MaxDescriptionLength + 1)}
StatusInputs == StatusTags \cup {"InvalidStatus", Undefined}
DateInputs == Times \cup {NullDate, InvalidDate, UndefinedDate}

(* ---------------- the entity on its own ---------------- *)
NoRepo == [i \in {} |-> 0]
NoTask == reconstruct(NullId, EmptyString, EmptyString, Undefined, Undefined,
                      NullDate, NullDate, NullDate, NullDate)

(* What a read use case hands back: the task DTOs of a list or single-task *)
(* read, and the counters of a statistics read.                            *)
NoStats ==
    [totalTasks |-> 0, scheduledTasks |-> 0, pendingTasks |-> 0, inProgressTasks |-> 0,
     completedTasks |-> 0, failedTasks |-> 0, cancelledTasks |-> 0, overdueTasks |-> 0,
     completionRate |-> 0]
NullMessage == "null"
(* No request is in flight. *)
NoRequests == <<>>

NoResponse == [tasks |-> <<>>, stats |-> NoStats, count |-> 0, emptyMessage |-> NullMessage]

Started(op) ==
    [op |-> op, id |-> Undefined, user |-> Undefined, arg |-> Undefined,
     err |-> NoError, from |-> Undefined]

Step(op, arg, r) ==
    /\ task' = r.t
    /\ last' = [op |-> op, id |-> task.id, user |-> task.userId, arg |-> arg,
                err |-> r.err, from |-> task.status]
    /\ UNCHANGED <<now, repo, response, inflight>>

Constructed(clk) ==
    {Construct(ti, de, "u1", sd, dl, clk).t :
        <<ti, de, sd, dl>> \in
            {x \in TitleInputs \X DescriptionInputs \X DateInputs \X DateInputs :
                Construct(x[1], x[2], "u1", x[3], x[4], clk).err = NoError}}

Reconstructed(clk) ==
    {reconstruct("t1", Str(1, 1), EmptyString, st, "u1", sd, dl, ca, ua) :
        <<st, sd, dl, ca, ua>> \in
            {x \in StatusTags \X Times \X (Times \cup {NullDate}) \X Times \X Times :
                /\ x[3] # NullDate => x[3] >= x[2]
                /\ x[4] <= x[5]
                /\ x[5] <= clk}}

Init ==
    /\ now \in Times
    /\ \/ task \in Constructed(now) /\ last = Started("new")
       \/ task \in Reconstructed(now) /\ last = Started("reconstruct")
    /\ repo = NoRepo
    /\ response = NoResponse
    /\ inflight = NoRequests

Tick ==
    /\ now < MaxTime
    /\ now' = now + 1
    /\ UNCHANGED <<task, last, repo, response, inflight>>

UpdateTitle == \E ti \in TitleInputs : Step("updateTitle", Undefined, updateTitle(task, ti, now))

UpdateDescription == \E de \in DescriptionInputs : Step("updateDescription", Undefined, updateDescription(task, de, now))

UpdateStatus == \E st \in StatusInputs : Step("updateStatus", st, updateStatus(task, st, now))

(* Arguments of the composite update: every status with the dates absent,  *)
(* and every pair of dates with a few statuses.                            *)
UpdateInputs ==
    ({UndefinedStr, Str(2, 0), Str(3, 1)} \X {UndefinedStr, Str(3, 1)} \X StatusInputs
        \X {UndefinedDate} \X {UndefinedDate})
    \cup
    ({UndefinedStr, Str(3, 1)} \X {UndefinedStr} \X {Undefined, "IN_PROGRESS", "FAILED"}
        \X (DateInputs \ {NullDate}) \X (DateInputs \ {InvalidDate}))

Update ==
    \E x \in UpdateInputs :
        Step("update", x[3], update(task, x[1], x[2], x[3], x[4], x[5], now))

UpdateStartDate == \E sd \in Times \cup {InvalidDate} : Step("updateStartDate", Undefined, updateStartDate(task, sd, now))

UpdateDeadline == \E dl \in Times \cup {NullDate, InvalidDate} : Step("updateDeadline", Undefined, updateDeadline(task, dl, now))

MarkAsInProgress == Step("markAsInProgress", Undefined, markAsInProgress(task, now))

MarkAsCompleted == Step("markAsCompleted", Undefined, markAsCompleted(task, now))

MarkAsFailed == Step("markAsFailed", Undefined, markAsFailed(task, now))

Reopen == Step("reopen", Undefined, reopen(task, now))

CancelTask == Step("cancelTask", Undefined, cancelTask(task, now))

Next ==
    \/ Tick
    \/ UpdateTitle
    \/ UpdateDescription
    \/ UpdateStatus
    \/ Update
    \/ UpdateStartDate
    \/ UpdateDeadline
    \/ MarkAsInProgress
    \/ MarkAsCompleted
    \/ MarkAsFailed
    \/ Reopen
    \/ CancelTask

Spec == Init /\ [][Next]_vars

TypeOK ==
    /\ now \in Times
    /\ task.status \in StatusTags \cup {Undefined}
    /\ last.err \in {NoError, ValidationError, BusinessRuleViolation}


(* ---------------- SqlTaskRepository ---------------- *)
(* A row of dbo.Tasks.  toDomain hands the row's columns to                *)
(* Task.reconstruct in the order the code writes them.                     *)
toDomain(id, row) ==
    reconstruct(id, row.title, row.description, row.status, row.user_id,
                row.created_at, row.updated_at, row.start_date, row.deadline)

(* repository.update(task) at instant clk: TaskModel.update writes title,  *)
(* description, start_date and deadline, TaskModel.updateStatus writes the *)
(* status; TR_Tasks_UpdateTimestamp stamps updated_at.                     *)
repositoryUpdate(row, t, clk) ==
    [row EXCEPT !.title = t.title, !.description = t.description,
                !.start_date = t.startDate, !.deadline = t.deadline,
                !.status = t.status, !.updated_at = clk]

findById(rp, taskId) == IF taskId \in DOMAIN rp THEN toDomain(taskId, rp[taskId]) ELSE NoTask

(* ---------------- ChangeTaskStatusUseCase ---------------- *)
(* execute(taskId, newStatus, userId): the resulting repository, the       *)
(* entity the use case held, and the error thrown.                         *)
execute(rp, held, taskId, newStatus, userId, clk) ==
    IF taskId = Undefined \/ newStatus = Undefined \/ userId = Undefined
    THEN [repo |-> rp, t |-> held, err |-> ValidationError]
    ELSE IF taskId \notin DOMAIN rp
    THEN [repo |-> rp, t |-> held, err |-> EntityNotFound]
    ELSE LET found == findById(rp, taskId)
             r == updateStatus(found, newStatus, clk)
         IN  IF ~belongsToUser(found, userId)
             THEN [repo |-> rp, t |-> found, err |-> Unauthorized]
             ELSE IF r.err # NoError
             THEN [repo |-> rp, t |-> r.t, err |-> r.err]
             ELSE [repo |-> [rp EXCEPT ![taskId] = repositoryUpdate(rp[taskId], r.t, clk)],
                   t |-> r.t, err |-> NoError]

reopenTask(rp, held, taskId, userId, clk) ==
    IF taskId \notin DOMAIN rp
    THEN [repo |-> rp, t |-> held, err |-> EntityNotFound]
    ELSE LET found == findById(rp, taskId)
             r == reopen(found, clk)
         IN  IF ~belongsToUser(found, userId)
             THEN [repo |-> rp, t |-> found, err |-> Unauthorized]
             ELSE IF r.err # NoError
             THEN [repo |-> rp, t |-> r.t, err |-> r.err]
             ELSE [repo |-> [rp EXCEPT ![taskId] = repositoryUpdate(rp[taskId], r.t, clk)],
                   t |-> r.t, err |-> NoError]

StoredStatus(rp, taskId) == IF taskId \in DOMAIN rp THEN rp[taskId].status ELSE Undefined

UCStep(op, taskId, userId, arg, r) ==
    /\ repo' = r.repo
    /\ task' = r.t
    /\ last' = [op |-> op, id |-> taskId, user |-> userId, arg |-> arg,
                err |-> r.err, from |-> StoredStatus(repo, taskId)]
    /\ UNCHANGED <<now, response, inflight>>

Rows ==
    {[user_id |-> "u1", title |-> Str(1, 1), description |-> EmptyString, status |-> st,
      start_date |-> sd, deadline |-> dl, created_at |-> ca, updated_at |-> ua] :
        <<st, sd, dl, ca, ua>> \in
            {x \in StatusTags \X Times \X (Times \cup {NullDate}) \X Times \X Times :
                /\ x[3] # NullDate => x[3] >= x[2]
                /\ x[4] <= x[5]}}

InitUC ==
    /\ now \in Times
    /\ repo \in [TaskIds -> {row \in Rows : row.updated_at <= now}]
    /\ task = NoTask
    /\ last = Started("none")
    /\ response = NoResponse
    /\ inflight = NoRequests

TickUC ==
    /\ now < MaxTime
    /\ now' = now + 1
    /\ UNCHANGED <<task, last, repo, response, inflight>>

ChangeTaskStatusExecute ==
    \E taskId \in TaskIds \cup {MissingTaskId, Undefined}, st \in StatusInputs,
       userId \in UserIds \cup {Undefined} :
        UCStep("execute", taskId, userId, st, execute(repo, task, taskId, st, userId, now))

ChangeTaskStatusMarkAsInProgress ==
    \E taskId \in TaskIds \cup {MissingTaskId}, userId \in UserIds :
        UCStep("markAsInProgress", taskId, userId, TaskStatus_IN_PROGRESS,
               execute(repo, task, taskId, TaskStatus_IN_PROGRESS, userId, now))

ChangeTaskStatusMarkAsCompleted ==
    \E taskId \in TaskIds \cup {MissingTaskId}, userId \in UserIds :
        UCStep("markAsCompleted", taskId, userId, TaskStatus_COMPLETED,
               execute(repo, task, taskId, TaskStatus_COMPLETED, userId, now))

ReopenTask ==
    \E taskId \in TaskIds \cup {MissingTaskId}, userId \in UserIds :
        UCStep("reopenTask", taskId, userId, Undefined, reopenTask(repo, task, taskId, userId, now))

NextUC ==
    \/ TickUC
    \/ ChangeTaskStatusExecute
    \/ ChangeTaskStatusMarkAsInProgress
    \/ ChangeTaskStatusMarkAsCompleted
    \/ ReopenTask

SpecUC == InitUC /\ [][NextUC]_vars


(* ---------------- read use cases ---------------- *)
INVALID_STATUS_FILTER == "INVALID_STATUS_FILTER"
TASK_NOT_FOUND == "TASK_NOT_FOUND"
FORBIDDEN == "FORBIDDEN"
RequestError == "RequestError"

NullFilter == "null"
validStatuses == {"SCHEDULED", "IN_PROGRESS", "COMPLETED", "FAILED", "CANCELLED"}

isOverdue_onlyOpenTasks(t, clk) ==
    IF t.deadline = NullDate \/ t.status \in {"COMPLETED", "FAILED", "CANCELLED"} THEN FALSE
    ELSE clk > t.deadline

isOverdue(t, clk) ==
    IF t.deadline = NullDate \/ t.status = TaskStatus_COMPLETED THEN FALSE
    ELSE clk > t.deadline

(* Math.round of the non-negative quotient n / d.                          *)
round(n, d) == (2 * n + d) \div (2 * d)

(* A null number, and the NaN or Infinity a division by zero yields.       *)
NullNumber == 0 - 1
NotFinite == 0 - 2

getProgressPercentage_noOverdueReturn(t, clk) ==
    IF t.deadline = NullDate THEN NullNumber
    ELSE IF t.status = TaskStatus_COMPLETED THEN 100
    ELSE IF clk <= t.startDate THEN 0
    ELSE IF t.deadline - t.startDate = 0 THEN NotFinite
    ELSE round((clk - t.startDate) * 100, t.deadline - t.startDate)

getProgressPercentage(t, clk) ==
    IF t.deadline = NullDate THEN NullNumber
    ELSE IF t.status = TaskStatus_COMPLETED THEN 100
    ELSE IF clk >= t.deadline THEN 100
    ELSE IF clk <= t.startDate THEN 0
    ELSE IF t.deadline - t.startDate = 0 THEN NotFinite
    ELSE round((clk - t.startDate) * 100, t.deadline - t.startDate)

(* ---------------- TaskDisplayData ---------------- *)
forScheduled ==
    [statusClass |-> "scheduled", progressColor |-> "safe",
     availableActions |-> <<"edit", "delete">>,
     canEdit |-> TRUE, canDelete |-> TRUE, canComplete |-> FALSE]

forPending ==
    [statusClass |-> "pending", progressColor |-> "safe",
     availableActions |-> <<"edit", "delete", "complete">>,
     canEdit |-> TRUE, canDelete |-> TRUE, canComplete |-> TRUE]

forInProgress(progress) ==
    [statusClass |-> "in-progress",
     progressColor |-> IF progress >= 80 THEN "danger"
                       ELSE IF progress >= 50 THEN "warning" ELSE "safe",
     availableActions |-> <<"edit", "delete", "complete">>,
     canEdit |-> TRUE, canDelete |-> TRUE, canComplete |-> TRUE]

forCompleted ==
    [statusClass |-> "completed", progressColor |-> "completed",
     availableActions |-> <<"view", "delete">>,
     canEdit |-> FALSE, canDelete |-> TRUE, canComplete |-> FALSE]

forFailed ==
    [statusClass |-> "failed", progressColor |-> "danger",
     availableActions |-> <<"view", "delete", "complete">>,
     canEdit |-> FALSE, canDelete |-> TRUE, canComplete |-> TRUE]

forCancelled ==
    [statusClass |-> "cancelled", progressColor |-> "safe",
     availableActions |-> <<"view">>,
     canEdit |-> FALSE, canDelete |-> FALSE, canComplete |-> FALSE]

(* progress || 0 *)
orZero(progress) == IF progress \in {NullNumber, NotFinite} THEN 0 ELSE progress

(* dbo.Tasks.status is NOT NULL and CK_Tasks_Status admits the six tags:   *)
(* writing any other value makes the UPDATE fail.                          *)
statusAccepted(status) == status \in StatusTags

(* The row left behind when TaskModel.update has run and                   *)
(* TaskModel.updateStatus has failed.                                      *)
repositoryUpdateAborted(row, t, clk) ==
    [row EXCEPT !.title = t.title, !.description = t.description,
                !.start_date = t.startDate, !.deadline = t.deadline,
                !.updated_at = clk]

taskRepositoryUpdate(rp, t, clk) ==
    IF statusAccepted(t.status)
    THEN [repo |-> [rp EXCEPT ![t.id] = repositoryUpdate(rp[t.id], t, clk)], err |-> NoError]
    ELSE [repo |-> [rp EXCEPT ![t.id] = repositoryUpdateAborted(rp[t.id], t, clk)],
          err |-> RequestError]

(* The orders in which a SELECT ... ORDER BY created_at DESC may return    *)
(* the rows: rows with equal created_at come in either order.              *)
Orders(rp) ==
    {o \in [1..Cardinality(DOMAIN rp) -> DOMAIN rp] :
        /\ \A i, j \in DOMAIN o : i # j => o[i] # o[j]
        /\ \A i, j \in DOMAIN o : i < j => rp[o[i]].created_at >= rp[o[j]].created_at}

selectTasks(rp, ord, userId, statuses) ==
    LET ids == SelectSeq(ord, LAMBDA id : rp[id].user_id = userId /\ rp[id].status \in statuses)
    IN  [i \in 1..Len(ids) |-> toDomain(ids[i], rp[ids[i]])]

findByUserId(rp, ord, userId) == selectTasks(rp, ord, userId, StatusTags)

findByUserIdAndStatus(rp, ord, userId, status) == selectTasks(rp, ord, userId, {status})

(* The body of the auto-transition loop for one task.                      *)
autoTransitionTask(rp, t, clk) ==
    LET a == IF shouldTransitionToPending(t, clk)
             THEN LET r == updateStatus(t, "PENDING", clk)
                      w == taskRepositoryUpdate(rp, r.t, clk)
                  IN  IF r.err # NoError
                      THEN [repo |-> rp, t |-> r.t, err |-> r.err]
                      ELSE [repo |-> w.repo, t |-> r.t, err |-> w.err]
             ELSE [repo |-> rp, t |-> t, err |-> NoError]
    IN  IF a.err # NoError THEN a
        ELSE IF shouldBeMarkedAsFailed(a.t, clk)
        THEN LET r == markAsFailed(a.t, clk)
                 w == taskRepositoryUpdate(a.repo, r.t, clk)
             IN  [repo |-> w.repo, t |-> r.t, err |-> w.err]
        ELSE a

RECURSIVE autoTransitionPass(_, _, _, _)
autoTransitionPass(rp, tasks, i, clk) ==
    IF i > Len(tasks) THEN [repo |-> rp, tasks |-> tasks, err |-> NoError]
    ELSE LET r == autoTransitionTask(rp, tasks[i], clk)
         IN  IF r.err # NoError
             THEN [repo |-> r.repo, tasks |-> [tasks EXCEPT ![i] = r.t], err |-> r.err]
             ELSE autoTransitionPass(r.repo, [tasks EXCEPT ![i] = r.t], i + 1, clk)

(* TaskDisplayDTO: the fields the lifecycle and the display rules depend   *)
(* on.                                                                     *)
TaskDisplayDTO(t, clk, displayData) ==
    [id |-> t.id, status |-> t.status, userId |-> t.userId,
     progress |-> orZero(getProgressPercentage(t, clk)),
     isOverdue |-> isOverdue(t, clk), displayData |-> displayData]

(* GetTaskListForDisplayUseCase._enrichTask *)
enrichTask(t, clk) ==
    TaskDisplayDTO(t, clk,
        CASE t.status = "SCHEDULED" -> forScheduled
          [] t.status = "PENDING" -> forPending
          [] t.status = "IN_PROGRESS" -> forInProgress(orZero(getProgressPercentage(t, clk)))
          [] t.status = "COMPLETED" -> forCompleted
          [] t.status = "FAILED" -> forFailed
          [] t.status = "CANCELLED" -> forCancelled
          [] OTHER -> forPending)

(* GetTaskForDisplayUseCase._calculateDisplayData *)
calculateDisplayData(t, clk) ==
    CASE t.status = "PENDING" -> forPending
      [] t.status = "IN_PROGRESS" -> forInProgress(orZero(getProgressPercentage(t, clk)))
      [] t.status = "COMPLETED" -> forCompleted
      [] OTHER -> forPending

(* ---------------- GetTaskListForDisplayUseCase ---------------- *)
rawTasks_noPendingMerge(rp, ord, userId, statusFilter) ==
    IF statusFilter # NullFilter
    THEN findByUserIdAndStatus(rp, ord, userId, statusFilter)
    ELSE SelectSeq(findByUserId(rp, ord, userId), LAMBDA t : t.status # "CANCELLED")

rawTasks(rp, ord, userId, statusFilter) ==
    IF statusFilter = "IN_PROGRESS"
    THEN findByUserIdAndStatus(rp, ord, userId, "IN_PROGRESS")
            \o findByUserIdAndStatus(rp, ord, userId, "PENDING")
    ELSE IF statusFilter # NullFilter
    THEN findByUserIdAndStatus(rp, ord, userId, statusFilter)
    ELSE SelectSeq(findByUserId(rp, ord, userId), LAMBDA t : t.status # "CANCELLED")

(* The empty-list message, named after the filter it is worded for.        *)
generateEmptyMessage(statusFilter, taskCount) ==
    IF taskCount > 0 THEN NullMessage
    ELSE IF statusFilter \in validStatuses THEN statusFilter
    ELSE "ALL"

getTaskListForDisplay(rp, ord, userId, statusFilter, clk) ==
    IF statusFilter # NullFilter /\ statusFilter \notin validStatuses
    THEN [repo |-> rp, response |-> NoResponse, err |-> INVALID_STATUS_FILTER]
    ELSE LET p == autoTransitionPass(rp, rawTasks(rp, ord, userId, statusFilter), 1, clk)
         IN  IF p.err # NoError
             THEN [repo |-> p.repo, response |-> NoResponse, err |-> p.err]
             ELSE [repo |-> p.repo,
                   response |-> [tasks |-> [i \in 1..Len(p.tasks) |-> enrichTask(p.tasks[i], clk)],
                                 stats |-> NoStats,
                                 count |-> Len(p.tasks),
                                 emptyMessage |-> IF Len(p.tasks) = 0
                                                  THEN generateEmptyMessage(statusFilter, Len(p.tasks))
                                                  ELSE NullMessage],
                   err |-> NoError]

(* ---------------- GetStatisticsForDisplayUseCase ---------------- *)
calculateStatistics_failedInDenominator(allTasks, clk) ==
    LET activeTasks == SelectSeq(allTasks, LAMBDA t : t.status # "CANCELLED")
        count(st) == Len(SelectSeq(activeTasks, LAMBDA t : t.status \in st))
        totalTasks == Len(activeTasks)
        completableTasksCount == totalTasks
    IN  [totalTasks |-> totalTasks,
         scheduledTasks |-> count({"SCHEDULED"}),
         pendingTasks |-> count({"PENDING"}),
         inProgressTasks |-> count({"IN_PROGRESS", "PENDING"}),
         completedTasks |-> count({"COMPLETED"}),
         failedTasks |-> count({"FAILED"}),
         cancelledTasks |-> Len(allTasks) - Len(activeTasks),
         overdueTasks |-> Len(SelectSeq(activeTasks, LAMBDA t : isOverdue(t, clk))),
         completionRate |-> IF completableTasksCount > 0
                            THEN round(count({"COMPLETED"}) * 100, completableTasksCount)
                            ELSE 0]

calculateStatistics(allTasks, clk) ==
    LET activeTasks == SelectSeq(allTasks, LAMBDA t : t.status # "CANCELLED")
        count(st) == Len(SelectSeq(activeTasks, LAMBDA t : t.status \in st))
        totalTasks == Len(activeTasks)
        completableTasksCount == totalTasks - count({"FAILED"})
    IN  [totalTasks |-> totalTasks,
         scheduledTasks |-> count({"SCHEDULED"}),
         pendingTasks |-> count({"PENDING"}),
         inProgressTasks |-> count({"IN_PROGRESS", "PENDING"}),
         completedTasks |-> count({"COMPLETED"}),
         failedTasks |-> count({"FAILED"}),
         cancelledTasks |-> Len(allTasks) - Len(activeTasks),
         overdueTasks |-> Len(SelectSeq(activeTasks, LAMBDA t : isOverdue(t, clk))),
         completionRate |-> IF completableTasksCount > 0
                            THEN round(count({"COMPLETED"}) * 100, completableTasksCount)
                            ELSE 0]

getStatisticsForDisplay_pendingNotMerged(rp, ord, userId, clk) ==
    LET p == autoTransitionPass(rp, findByUserId(rp, ord, userId), 1, clk)
        st == calculateStatistics(p.tasks, clk)
    IN  IF p.err # NoError
        THEN [repo |-> p.repo, response |-> NoResponse, err |-> p.err]
        ELSE [repo |-> p.repo,
              response |-> [NoResponse EXCEPT !.stats =
                               [st EXCEPT !.inProgressTasks = st.inProgressTasks - st.pendingTasks]],
              err |-> NoError]

getStatisticsForDisplay(rp, ord, userId, clk) ==
    LET p == autoTransitionPass(rp, findByUserId(rp, ord, userId), 1, clk)
    IN  IF p.err # NoError
        THEN [repo |-> p.repo, response |-> NoResponse, err |-> p.err]
        ELSE [repo |-> p.repo,
              response |-> [NoResponse EXCEPT !.stats = calculateStatistics(p.tasks, clk)],
              err |-> NoError]

(* ---------------- GetTaskForDisplayUseCase ---------------- *)
getTaskForDisplay_noOwnerCheck(rp, taskId, userId, clk) ==
    IF taskId \notin DOMAIN rp
    THEN [repo |-> rp, response |-> NoResponse, err |-> TASK_NOT_FOUND]
    ELSE [repo |-> rp,
          response |-> [NoResponse EXCEPT
                           !.tasks = <<TaskDisplayDTO(findById(rp, taskId), clk,
                                          calculateDisplayData(findById(rp, taskId), clk))>>],
          err |-> NoError]

getTaskForDisplay(rp, taskId, userId, clk) ==
    IF taskId \notin DOMAIN rp
    THEN [repo |-> rp, response |-> NoResponse, err |-> TASK_NOT_FOUND]
    ELSE IF findById(rp, taskId).userId # userId
    THEN [repo |-> rp, response |-> NoResponse, err |-> FORBIDDEN]
    ELSE [repo |-> rp,
          response |-> [NoResponse EXCEPT
                           !.tasks = <<TaskDisplayDTO(findById(rp, taskId), clk,
                                          calculateDisplayData(findById(rp, taskId), clk))>>],
          err |-> NoError]

(* ---------------- DeleteTaskUseCase ---------------- *)
deleteTask_noOwnerCheck(rp, held, taskId, userId, clk) ==
    IF taskId = Undefined \/ userId = Undefined
    THEN [repo |-> rp, t |-> held, err |-> ValidationError]
    ELSE IF taskId \notin DOMAIN rp
    THEN [repo |-> rp, t |-> held, err |-> EntityNotFound]
    ELSE LET r == cancelTask(findById(rp, taskId), clk)
             w == taskRepositoryUpdate(rp, r.t, clk)
         IN  [repo |-> w.repo, t |-> r.t, err |-> w.err]

deleteTask(rp, held, taskId, userId, clk) ==
    IF taskId = Undefined \/ userId = Undefined
    THEN [repo |-> rp, t |-> held, err |-> ValidationError]
    ELSE IF taskId \notin DOMAIN rp
    THEN [repo |-> rp, t |-> held, err |-> EntityNotFound]
    ELSE LET found == findById(rp, taskId)
             r == cancelTask(found, clk)
             w == taskRepositoryUpdate(rp, r.t, clk)
         IN  IF ~belongsToUser(found, userId)
             THEN [repo |-> rp, t |-> found, err |-> Unauthorized]
             ELSE [repo |-> w.repo, t |-> r.t, err |-> w.err]

(* ---------------- UpdateTaskUseCase ---------------- *)
updateTask_persistsOnError(rp, held, taskId, userId, title, description, status, startDate, deadline, clk) ==
    IF taskId = Undefined \/ userId = Undefined
    THEN [repo |-> rp, t |-> held, err |-> ValidationError]
    ELSE IF taskId \notin DOMAIN rp
    THEN [repo |-> rp, t |-> held, err |-> EntityNotFound]
    ELSE LET found == findById(rp, taskId)
             r == update(found, title, description, status, startDate, deadline, clk)
             w == taskRepositoryUpdate(rp, r.t, clk)
         IN  IF ~belongsToUser(found, userId)
             THEN [repo |-> rp, t |-> found, err |-> Unauthorized]
             ELSE IF r.err # NoError
             THEN [repo |-> w.repo, t |-> r.t, err |-> r.err]
             ELSE [repo |-> w.repo, t |-> r.t, err |-> w.err]

updateTask(rp, held, taskId, userId, title, description, status, startDate, deadline, clk) ==
    IF taskId = Undefined \/ userId = Undefined
    THEN [repo |-> rp, t |-> held, err |-> ValidationError]
    ELSE IF taskId \notin DOMAIN rp
    THEN [repo |-> rp, t |-> held, err |-> EntityNotFound]
    ELSE LET found == findById(rp, taskId)
             r == update(found, title, description, status, startDate, deadline, clk)
             w == taskRepositoryUpdate(rp, r.t, clk)
         IN  IF ~belongsToUser(found, userId)
             THEN [repo |-> rp, t |-> found, err |-> Unauthorized]
             ELSE IF r.err # NoError
             THEN [repo |-> rp, t |-> r.t, err |-> r.err]
             ELSE [repo |-> w.repo, t |-> r.t, err |-> w.err]

(* ---------------- read specification ---------------- *)
ReadTaskIds == {"t1", "t2"}
FilterInputs == StatusTags \cup {NullFilter, "InvalidStatus"}

(* The second stored task: an early task of either user.                   *)
OtherRows ==
    {[user_id |-> u, title |-> Str(1, 1), description |-> EmptyString, status |-> st,
      start_date |-> 1, deadline |-> NullDate, created_at |-> 1, updated_at |-> 1] :
        <<u, st>> \in UserIds \X {"PENDING", "COMPLETED"}}

ReadStep(op, taskId, userId, arg, r) ==
    /\ repo' = r.repo
    /\ response' = r.response
    /\ last' = [op |-> op, id |-> taskId, user |-> userId, arg |-> arg,
                err |-> r.err, from |-> Undefined]
    /\ UNCHANGED <<now, task, inflight>>

InitRead ==
    /\ now \in Times
    /\ \E r1 \in {row \in Rows : row.updated_at <= now}, r2 \in OtherRows :
          repo = [id \in ReadTaskIds |-> IF id = "t1" THEN r1 ELSE r2]
    /\ task = NoTask
    /\ last = Started("none")
    /\ response = NoResponse
    /\ inflight = NoRequests

TickRead ==
    /\ now < MaxTime
    /\ now' = now + 1
    /\ UNCHANGED <<task, last, repo, response, inflight>>

GetTaskListForDisplay ==
    \E userId \in UserIds, statusFilter \in FilterInputs, ord \in Orders(repo) :
        ReadStep("getTaskListForDisplay", Undefined, userId, statusFilter,
                 getTaskListForDisplay(repo, ord, userId, statusFilter, now))

GetStatisticsForDisplay ==
    \E userId \in UserIds, ord \in Orders(repo) :
        ReadStep("getStatisticsForDisplay", Undefined, userId, NullFilter,
                 getStatisticsForDisplay(repo, ord, userId, now))

GetTaskForDisplay ==
    \E taskId \in ReadTaskIds \cup {MissingTaskId}, userId \in UserIds :
        ReadStep("getTaskForDisplay", taskId, userId, NullFilter,
                 getTaskForDisplay(repo, taskId, userId, now))

NextRead ==
    \/ TickRead
    \/ GetTaskListForDisplay
    \/ GetStatisticsForDisplay
    \/ GetTaskForDisplay

SpecRead == InitRead /\ [][NextRead]_vars

(* The ids a list or statistics read fetches from the repository rp.       *)
fetchedIds(rp, op, userId, statusFilter) ==
    {id \in DOMAIN rp :
        /\ rp[id].user_id = userId
        /\ \/ op = "getStatisticsForDisplay"
           \/ statusFilter = NullFilter /\ rp[id].status # "CANCELLED"
           \/ statusFilter = "IN_PROGRESS" /\ rp[id].status \in {"IN_PROGRESS", "PENDING"}
           \/ statusFilter = rp[id].status /\ statusFilter \in validStatuses}

(* ---------------- display specification ---------------- *)
(* One task entity on a finer time line, enriched for display by either    *)
(* read use case.                                                          *)
MaxInstant == 4
Instants == 1..MaxInstant

DisplayTasks ==
    {reconstruct("t1", Str(1, 1), EmptyString, st, "u1", sd, dl, sd, sd) :
        <<st, sd, dl>> \in
            {x \in (StatusTags \cup {Undefined}) \X Instants \X (Instants \cup {NullDate}) :
                x[3] # NullDate => x[3] >= x[2]}}

DisplayStep(op, dto) ==
    /\ response' = [NoResponse EXCEPT !.tasks = <<dto>>]
    /\ last' = [op |-> op, id |-> task.id, user |-> task.userId, arg |-> Undefined,
                err |-> NoError, from |-> task.status]
    /\ UNCHANGED <<now, task, repo, inflight>>

InitDisplay ==
    /\ now \in Instants
    /\ task \in DisplayTasks
    /\ last = Started("reconstruct")
    /\ repo = NoRepo
    /\ response = NoResponse
    /\ inflight = NoRequests

TickDisplay ==
    /\ now < MaxInstant
    /\ now' = now + 1
    /\ UNCHANGED <<task, last, repo, response, inflight>>

EnrichTask == DisplayStep("enrichTask", enrichTask(task, now))

CalculateDisplayData ==
    DisplayStep("calculateDisplayData", TaskDisplayDTO(task, now, calculateDisplayData(task, now)))

NextDisplay ==
    \/ TickDisplay
    \/ EnrichTask
    \/ CalculateDisplayData

SpecDisplay == InitDisplay /\ [][NextDisplay]_vars

(* ---------------- statistics specification ---------------- *)
(* A user with up to MaxCount tasks of each of four statuses, all written  *)
(* at one instant, and statistics reads at one later or equal instant.     *)
MaxCount == 4

StatsRow(st, clk) ==
    [user_id |-> "u1", title |-> Str(1, 1), description |-> EmptyString, status |-> st,
     start_date |-> clk, deadline |-> NullDate, created_at |-> clk, updated_at |-> clk]

StatsRepo(c, f, p, x, clk) ==
    [i \in 1..(c + f + p + x) |->
        StatsRow(IF i <= c THEN "COMPLETED"
                 ELSE IF i <= c + f THEN "FAILED"
                 ELSE IF i <= c + f + p THEN "PENDING"
                 ELSE "CANCELLED", clk)]

(* All rows have the same created_at, so the SELECT may return them in any *)
(* order; the model takes them by ascending and by descending id.          *)
StatsOrders(rp) ==
    LET n == Cardinality(DOMAIN rp)
    IN  {[i \in 1..n |-> i], [i \in 1..n |-> n + 1 - i]}

InitStats ==
    /\ now \in Times
    /\ \E c, f, p, x \in 0..MaxCount, clk \in 1..now : repo = StatsRepo(c, f, p, x, clk)
    /\ task = NoTask
    /\ last = Started("none")
    /\ response = NoResponse
    /\ inflight = NoRequests

CalculateStatistics ==
    \E userId \in UserIds, ord \in StatsOrders(repo) :
        ReadStep("getStatisticsForDisplay", Undefined, userId, NullFilter,
                 getStatisticsForDisplay(repo, ord, userId, now))

NextStats == CalculateStatistics

SpecStats == InitStats /\ [][NextStats]_vars

(* ---------------- write specification ---------------- *)
(* The use cases that change a task, and the single-task read, over one    *)
(* stored task of user u1 and callers u1 and u2.                           *)
UpdateTaskInputs ==
    ({UndefinedStr, EmptyString, Str(2, 0)} \X {UndefinedStr} \X {Undefined, "IN_PROGRESS"}
        \X {UndefinedDate} \X {UndefinedDate, NullDate})
    \cup {<<Str(3, 3), UndefinedStr, "IN_PROGRESS", UndefinedDate, InvalidDate>>}

InitWrite ==
    /\ now \in Times
    /\ repo \in [TaskIds -> {row \in Rows : row.updated_at <= now}]
    /\ task = NoTask
    /\ last = Started("none")
    /\ response = NoResponse
    /\ inflight = NoRequests

TickWrite ==
    /\ now < MaxTime
    /\ now' = now + 1
    /\ UNCHANGED <<task, last, repo, response, inflight>>

DeleteTask ==
    \E taskId \in TaskIds \cup {MissingTaskId, Undefined}, userId \in UserIds :
        UCStep("deleteTask", taskId, userId, Undefined,
               deleteTask(repo, task, taskId, userId, now))

UpdateTask ==
    \E taskId \in TaskIds \cup {MissingTaskId}, userId \in UserIds, x \in UpdateTaskInputs :
        UCStep("updateTask", taskId, userId, x[3],
               updateTask(repo, task, taskId, userId, x[1], x[2], x[3], x[4], x[5], now))

NextWrite ==
    \/ TickWrite
    \/ DeleteTask
    \/ UpdateTask
    \/ ChangeTaskStatusMarkAsInProgress
    \/ ReopenTask
    \/ GetTaskForDisplay

SpecWrite == InitWrite /\ [][NextWrite]_vars

(* ======================= properties ======================= *)
OpStep == now' = now

(* The accept/reject table of section 4.2 for the general set-status       *)
(* operation.                                                              *)
TableAccepts(S, T) ==
    /\ T \in {"PENDING", "IN_PROGRESS", "COMPLETED"}
    /\ ~(S = "COMPLETED" /\ T = "PENDING")
    /\ ~(S = "FAILED" /\ T \in {"PENDING", "IN_PROGRESS"})

(* C1: for every current status S and target T among the six tags,         *)
(* updateStatus(T) is accepted (and sets the status to T) exactly when the *)
(* section 4.2 table accepts (S, T); otherwise it is rejected.             *)
C1_TransitionTable ==
    (last.op = "updateStatus" /\ last.from \in StatusTags /\ last.arg \in StatusTags) =>
        IF TableAccepts(last.from, last.arg)
        THEN last.err = NoError /\ task.status = last.arg
        ELSE last.err # NoError /\ task.status = last.from

(* C2: the status becomes FAILED only in a markAsFailed step and CANCELLED *)
(* only in a cancelTask step; an updateStatus or update step never moves   *)
(* the task into FAILED or CANCELLED (nor into the value the code reads    *)
(* TaskStatus.FAILED / TaskStatus.CANCELLED as).                           *)
C2_OnlyDedicatedOperations ==
    [][ /\ (task'.status = "FAILED" /\ task.status # "FAILED") => last'.op = "markAsFailed"
        /\ (task'.status = "CANCELLED" /\ task.status # "CANCELLED") => last'.op = "cancelTask"
        /\ (last'.op \in {"updateStatus", "update"} /\ task'.status # task.status) =>
              task'.status \notin {"FAILED", "CANCELLED", TaskStatus_FAILED, TaskStatus_CANCELLED}
      ]_vars

C2_Witness ==
    /\ last.op \in {"updateStatus", "update"}
    /\ last.arg \in {"FAILED", "CANCELLED"}
    /\ last.err # NoError
    /\ task.status = last.from

(* C3: the status of a task is always one of the six tags.                 *)
C3_StatusIsOneOfSixTags == task.status \in StatusTags

(* C4: ChangeTaskStatusUseCase.execute(PENDING) by the owner of a stored   *)
(* COMPLETED task fails with BusinessRuleViolation raised by updateStatus; *)
(* the entity and the persisted row both keep status COMPLETED.            *)
C4_CompletedToPendingRejected ==
    (/\ last.op = "execute"
     /\ last.from = "COMPLETED"
     /\ last.arg = "PENDING"
     /\ last.id \in DOMAIN repo
     /\ last.user = repo[last.id].user_id) =>
        /\ last.err = BusinessRuleViolation
        /\ task.status = "COMPLETED"
        /\ repo[last.id].status = "COMPLETED"

C4_Witness ==
    /\ last.op = "execute"
    /\ last.from = "COMPLETED"
    /\ last.arg = "PENDING"
    /\ last.id \in DOMAIN repo
    /\ last.user = repo[last.id].user_id
    /\ last.err = BusinessRuleViolation

(* C5: updateStatus(FAILED) and updateStatus(CANCELLED) fail with a        *)
(* BusinessRuleViolation from every current status and leave the status    *)
(* unchanged.                                                              *)
C5_FailedCancelledAreBusinessRuleViolations ==
    (last.op = "updateStatus" /\ last.arg \in {"FAILED", "CANCELLED"}) =>
        /\ last.err = BusinessRuleViolation
        /\ task.status = last.from

(* C6: on a FAILED task updateStatus(T) is rejected for every target other *)
(* than COMPLETED and the status stays FAILED; FAILED -> COMPLETED is      *)
(* accepted.                                                               *)
C6_FailedOnlyToCompleted ==
    (last.op = "updateStatus" /\ last.from = "FAILED") =>
        IF last.arg = "COMPLETED"
        THEN last.err = NoError /\ task.status = "COMPLETED"
        ELSE last.err # NoError /\ task.status = "FAILED"

(* C7: updateStatus with a target that is not a status tag fails with a    *)
(* ValidationError whatever the current status, and the status is          *)
(* unchanged.                                                              *)
C7_UnrecognisedTargetIsValidationError ==
    (last.op = "updateStatus" /\ last.arg \notin StatusTags) =>
        /\ last.err = ValidationError
        /\ task.status = last.from

C7_Witness ==
    /\ last.op = "updateStatus"
    /\ last.arg \notin StatusTags
    /\ last.from = "COMPLETED"
    /\ last.err = ValidationError

(* C8: markAsInProgress sets the status to IN_PROGRESS from every status   *)
(* except COMPLETED; from COMPLETED it fails with BusinessRuleViolation    *)
(* and the status stays COMPLETED.                                         *)
C8_MarkAsInProgress ==
    last.op = "markAsInProgress" =>
        IF last.from = "COMPLETED"
        THEN last.err = BusinessRuleViolation /\ task.status = "COMPLETED"
        ELSE last.err = NoError /\ task.status = "IN_PROGRESS"

C8_Witness ==
    /\ last.op = "markAsInProgress"
    /\ last.from = "COMPLETED"
    /\ last.err = BusinessRuleViolation
    /\ task.status = "COMPLETED"

(* C9: markAsFailed leaves a COMPLETED or FAILED task unchanged and sets   *)
(* every other status to FAILED; a second markAsFailed in a row leaves the *)
(* status as the first one left it.                                        *)
C9_MarkAsFailed ==
    [][ (last'.op = "markAsFailed" /\ OpStep /\ task.status \in StatusTags) =>
            /\ IF task.status \in {"COMPLETED", "FAILED"}
               THEN task' = task
               ELSE task'.status = "FAILED"
            /\ last.op = "markAsFailed" => task'.status = task.status
      ]_vars

(* C10: cancelTask sets the status to CANCELLED from every status, and a   *)
(* cancelTask on a CANCELLED task changes no field, updatedAt included.    *)
C10_CancelTask ==
    [][ (last'.op = "cancelTask" /\ OpStep /\ task.status \in StatusTags) =>
            /\ task'.status = "CANCELLED"
            /\ task.status = "CANCELLED" => task' = task
      ]_vars


(* C11: reopen moves COMPLETED to IN_PROGRESS and every other non-FAILED   *)
(* status to PENDING; on a FAILED task it fails with a                     *)
(* BusinessRuleViolation and the status stays FAILED.                      *)
C11_Reopen ==
    (last.op = "reopen" /\ last.from \in StatusTags) =>
        IF last.from = "COMPLETED" THEN last.err = NoError /\ task.status = "IN_PROGRESS"
        ELSE IF last.from = "FAILED"
             THEN last.err = BusinessRuleViolation /\ task.status = "FAILED"
        ELSE last.err = NoError /\ task.status = "PENDING"

(* C12: CANCELLED is terminal: no updateStatus, update, markAsInProgress,  *)
(* markAsCompleted, markAsFailed or reopen step changes the status of a    *)
(* CANCELLED task.                                                         *)
C12_CancelledIsTerminal ==
    [][ (task.status = "CANCELLED" /\ last'.op # "cancelTask") => task'.status = "CANCELLED" ]_vars

(* C13: a newly constructed task is SCHEDULED exactly when its effective   *)
(* startDate is strictly later than the creation instant, and PENDING      *)
(* otherwise.                                                              *)
C13_InitialStatus ==
    last.op = "new" =>
        IF task.startDate > task.createdAt
        THEN task.status = "SCHEDULED"
        ELSE task.status = "PENDING"

(* C14: shouldTransitionToPending() is true exactly when the status is     *)
(* SCHEDULED and now >= startDate.                                         *)
C14_ShouldTransitionToPending ==
    shouldTransitionToPending(task, now) <=>
        (task.status = "SCHEDULED" /\ now >= task.startDate)

(* C15: shouldBeMarkedAsFailed() is true exactly when a deadline is set,   *)
(* the status is none of COMPLETED, FAILED, CANCELLED, and now > deadline. *)
C15_ShouldBeMarkedAsFailed ==
    shouldBeMarkedAsFailed(task, now) <=>
        (/\ task.deadline # NullDate
         /\ task.status \notin {"COMPLETED", "FAILED", "CANCELLED"}
         /\ now > task.deadline)

C20_DescriptionAtMost1000 ==
    /\ task.description.len <= MaxDescriptionLength
    /\ (last.op = "updateDescription" /\ last.err = NoError) =>
           task.description.len <= MaxDescriptionLength


(* The auto-transition conditions of a stored row at instant clk.          *)
StartReached(row, clk) == row.status = "SCHEDULED" /\ clk >= row.start_date
DeadlinePassed(row, clk) ==
    /\ row.deadline # NullDate
    /\ row.status \notin {"COMPLETED", "FAILED", "CANCELLED"}
    /\ clk > row.deadline

(* C16: when a list or statistics read returns, every fetched task whose   *)
(* auto-transition condition held has the new status persisted, the        *)
(* status in the response is the persisted one, and no fetched task still  *)
(* satisfies shouldTransitionToPending or shouldBeMarkedAsFailed.          *)
C16_AutoTransitionsPersisted ==
    [][ (/\ last'.op \in {"getTaskListForDisplay", "getStatisticsForDisplay"}
         /\ last'.err = NoError)
        =>
        /\ \A id \in fetchedIds(repo, last'.op, last'.user, last'.arg) :
              LET t == repo[id]
                  u == toDomain(id, repo'[id])
              IN  /\ DeadlinePassed(t, now) => repo'[id].status = "FAILED"
                  /\ (StartReached(t, now) /\ ~DeadlinePassed(t, now))
                        => repo'[id].status = "PENDING"
                  /\ ~shouldTransitionToPending(u, now)
                  /\ ~shouldBeMarkedAsFailed(u, now)
        /\ \A i \in DOMAIN response'.tasks :
              response'.tasks[i].status = repo'[response'.tasks[i].id].status
      ]_vars

(* C17: a single-task read that returns also applies and persists a due    *)
(* auto-transition: the DTO and the repository hold PENDING for a          *)
(* SCHEDULED task whose startDate is reached, FAILED for a PENDING or      *)
(* IN_PROGRESS task past its deadline.                                     *)
C17_GetTaskForDisplayAutoTransitions ==
    [][ (last'.op = "getTaskForDisplay" /\ last'.err = NoError)
        =>
        LET t == repo[last'.id]
            s == response'.tasks[1].status
        IN  /\ (t.status \in {"PENDING", "IN_PROGRESS"} /\ DeadlinePassed(t, now))
                  => (s = "FAILED" /\ repo'[last'.id].status = "FAILED")
            /\ (StartReached(t, now) /\ ~DeadlinePassed(t, now))
                  => (s = "PENDING" /\ repo'[last'.id].status = "PENDING")
      ]_vars

(* C18: a fetched SCHEDULED task whose startDate is reached and whose      *)
(* deadline has passed ends one auto-transition pass with status FAILED    *)
(* persisted.                                                              *)
C18_ScheduledOverdueEndsFailed ==
    [][ last'.op \in {"getTaskListForDisplay", "getStatisticsForDisplay"}
        =>
        \A id \in fetchedIds(repo, last'.op, last'.user, last'.arg) :
            LET t == repo[id]
            IN  (StartReached(t, now) /\ DeadlinePassed(t, now))
                    => repo'[id].status = "FAILED"
      ]_vars


(* C21: for a task with a deadline getProgressPercentage() is an integer   *)
(* in 0..100, is 100 when the status is COMPLETED or now >= deadline, is 0 *)
(* when now <= startDate for a task that is not COMPLETED and whose        *)
(* deadline is still ahead, and is never the result of a division by zero; *)
(* the progress of every DTO is in 0..100 as well.                         *)
C21_ProgressPercentage ==
    /\ task.deadline # NullDate =>
          LET p == getProgressPercentage(task, now)
          IN  /\ p \in 0..100
              /\ (task.status = "COMPLETED" \/ now >= task.deadline) => p = 100
              /\ (now <= task.startDate /\ task.status # "COMPLETED" /\ now < task.deadline)
                    => p = 0
    /\ \A i \in DOMAIN response.tasks : response.tasks[i].progress \in 0..100

C21_Witness ==
    /\ last.op = "enrichTask"
    /\ task.deadline # NullDate
    /\ task.startDate < now /\ now < task.deadline
    /\ response.tasks[1].progress = getProgressPercentage(task, now)
    /\ response.tasks[1].progress \in 1..99

(* C22: isOverdue() is false when the status is COMPLETED or no deadline   *)
(* is set, and otherwise true exactly when now > deadline: a FAILED or     *)
(* CANCELLED task with a past deadline is overdue.                         *)
C22_IsOverdue ==
    isOverdue(task, now) <=>
        (task.deadline # NullDate /\ task.status # "COMPLETED" /\ now > task.deadline)

C22_Witness ==
    /\ last.op \in {"enrichTask", "calculateDisplayData"}
    /\ task.status \in {"FAILED", "CANCELLED"}
    /\ task.deadline # NullDate /\ now > task.deadline
    /\ isOverdue(task, now)
    /\ response.tasks[1].isOverdue


(* C23: a statistics read that returns reports, over the user's tasks      *)
(* after the pass and without the CANCELLED ones, completionRate =         *)
(* round(completed / (total - failed) * 100), 0 when total - failed = 0,   *)
(* always an integer in 0..100; 10 total, 2 failed, 4 completed give 50.   *)
C23_CompletionRate ==
    (last.op = "getStatisticsForDisplay" /\ last.err = NoError) =>
        LET st == response.stats
            mine == {i \in DOMAIN repo : repo[i].user_id = last.user}
            total == Cardinality({i \in mine : repo[i].status # "CANCELLED"})
            completed == Cardinality({i \in mine : repo[i].status = "COMPLETED"})
            failed == Cardinality({i \in mine : repo[i].status = "FAILED"})
            d == total - failed
            rate == st.completionRate
        IN  /\ st.totalTasks = total
            /\ st.completedTasks = completed
            /\ st.failedTasks = failed
            /\ rate \in 0..100
            /\ d = 0 => rate = 0
            /\ d > 0 => (2 * d * rate - d <= 200 * completed /\ 200 * completed < 2 * d * rate + d)
            /\ (total = 10 /\ failed = 2 /\ completed = 4) => rate = 50

C23_Witness ==
    /\ last.op = "getStatisticsForDisplay"
    /\ last.err = NoError
    /\ response.stats.totalTasks = 10
    /\ response.stats.failedTasks = 2
    /\ response.stats.completedTasks = 4
    /\ response.stats.cancelledTasks > 0
    /\ response.stats.completionRate = 50


(* C24: the list read accepts each of the six status tags and null as a    *)
(* filter, and rejects every other filter with the invalid-filter error    *)
(* without touching the repository.                                        *)
C24_FilterValidation ==
    [][ last'.op = "getTaskListForDisplay" =>
           IF last'.arg \in StatusTags \cup {NullFilter}
           THEN last'.err # INVALID_STATUS_FILTER
           ELSE last'.err = INVALID_STATUS_FILTER /\ repo' = repo
      ]_vars

(* C25: a list read that returns holds, for the null filter, exactly the   *)
(* user's tasks that are not CANCELLED and, for the IN_PROGRESS filter,    *)
(* exactly the user's tasks stored as IN_PROGRESS or PENDING; count is the *)
(* number of returned tasks and emptyMessage is non-null exactly when that *)
(* number is 0.                                                            *)
C25_ListContents ==
    [][ (last'.op = "getTaskListForDisplay" /\ last'.err = NoError) =>
           LET tasks == response'.tasks
               ids == {tasks[i].id : i \in DOMAIN tasks}
               mine == {id \in DOMAIN repo : repo[id].user_id = last'.user}
           IN  /\ last'.arg = NullFilter =>
                     ids = {id \in mine : repo[id].status # "CANCELLED"}
               /\ last'.arg = "IN_PROGRESS" =>
                     ids = {id \in mine : repo[id].status \in {"IN_PROGRESS", "PENDING"}}
               /\ Cardinality(ids) = Len(tasks)
               /\ response'.count = Len(tasks)
               /\ response'.emptyMessage # NullMessage <=> Len(tasks) = 0
      ]_vars

C25_Witness ==
    /\ last.op = "getTaskListForDisplay"
    /\ last.err = NoError
    /\ last.arg = "IN_PROGRESS"
    /\ response.count = 2
    /\ {response.tasks[i].status : i \in DOMAIN response.tasks} = {"IN_PROGRESS", "PENDING"}
    /\ response.emptyMessage = NullMessage

(* C26: the single-task read fails with not-found when no task has the id  *)
(* and with forbidden when the task belongs to another user; it returns a  *)
(* DTO only of a task owned by the caller.                                 *)
C26_GetTaskForDisplayOwnership ==
    last.op = "getTaskForDisplay" =>
        /\ last.id \notin DOMAIN repo =>
              (last.err = TASK_NOT_FOUND /\ response = NoResponse)
        /\ (last.id \in DOMAIN repo /\ repo[last.id].user_id # last.user) =>
              (last.err = FORBIDDEN /\ response = NoResponse)
        /\ last.err = NoError =>
              /\ Len(response.tasks) = 1
              /\ response.tasks[1].id = last.id
              /\ response.tasks[1].userId = last.user
              /\ repo[last.id].user_id = last.user

C26_Witness ==
    /\ last.op = "getTaskForDisplay"
    /\ last.id \in DOMAIN repo
    /\ repo[last.id].user_id # last.user
    /\ last.err = FORBIDDEN
    /\ response = NoResponse


(* C27: the update, change-status, reopen and delete use cases reject a    *)
(* caller who is not the owner with an unauthorized error and a missing    *)
(* task with a not-found error, leaving the entity and the repository as   *)
(* they were: a stored task only changes on a request of its owner.        *)
C27_OnlyOwnerChanges ==
    [][ (/\ last'.op \in {"deleteTask", "updateTask", "markAsInProgress", "reopenTask"}
         /\ last'.id # Undefined
         /\ last'.user # Undefined)
        =>
        /\ last'.id \notin DOMAIN repo =>
              (last'.err = EntityNotFound /\ repo' = repo /\ task' = task)
        /\ (last'.id \in DOMAIN repo /\ repo[last'.id].user_id # last'.user) =>
              /\ last'.err = Unauthorized
              /\ repo' = repo
              /\ task' = toDomain(last'.id, repo[last'.id])
        /\ \A id \in DOMAIN repo : repo'[id] # repo[id] => repo[id].user_id = last'.user
      ]_vars

C27_Witness ==
    /\ last.op \in {"deleteTask", "updateTask"}
    /\ last.id \in DOMAIN repo
    /\ repo[last.id].user_id # last.user
    /\ last.err = Unauthorized
    /\ task = toDomain(last.id, repo[last.id])

(* C28: a delete by the owner is a soft delete: it succeeds, the record is *)
(* still in the repository with status CANCELLED, and its title,           *)
(* description, owner, startDate and deadline are unchanged.               *)
C28_SoftDelete ==
    [][ (/\ last'.op = "deleteTask"
         /\ last'.id \in DOMAIN repo
         /\ repo[last'.id].user_id = last'.user)
        =>
        /\ last'.err = NoError
        /\ last'.id \in DOMAIN repo'
        /\ repo'[last'.id].status = "CANCELLED"
        /\ repo'[last'.id].title = repo[last'.id].title
        /\ repo'[last'.id].description = repo[last'.id].description
        /\ repo'[last'.id].user_id = repo[last'.id].user_id
        /\ repo'[last'.id].start_date = repo[last'.id].start_date
        /\ repo'[last'.id].deadline = repo[last'.id].deadline
      ]_vars

C30_DisplayTable ==
    \A i \in DOMAIN response.tasks :
        LET dto == response.tasks[i]
            dd == dto.displayData
            actions == {dd.availableActions[k] : k \in DOMAIN dd.availableActions}
            row(a, e, d, c) ==
                /\ actions = a
                /\ dd.canEdit = e /\ dd.canDelete = d /\ dd.canComplete = c
        IN  /\ dto.status = "SCHEDULED" => row({"edit", "delete"}, TRUE, TRUE, FALSE)
            /\ dto.status \in {"PENDING", "IN_PROGRESS"}
                  => row({"edit", "delete", "complete"}, TRUE, TRUE, TRUE)
            /\ dto.status = "COMPLETED" => row({"view", "delete"}, FALSE, TRUE, FALSE)
            /\ dto.status = "FAILED" => row({"view", "delete", "complete"}, FALSE, TRUE, TRUE)
            /\ dto.status = "CANCELLED" => row({"view"}, FALSE, FALSE, FALSE)
            /\ dto.status = "IN_PROGRESS" =>
                  dd.progressColor = IF dto.progress >= 80 THEN "danger"
                                     ELSE IF dto.progress >= 50 THEN "warning"
                                     ELSE "safe"


(***************************************************************************)
(* TaskStatus.fromString (src/domain/valueobjects/TaskStatus.js 18-45).    *)
(* A JS string is the sequence of its characters here, so that trim,       *)
(* toUpperCase, toLowerCase and replace(/\s+/g, '_') are computed and not  *)
(* assumed.                                                                *)
(***************************************************************************)
LowerLetters ==
    <<"a", "b", "c", "d", "e", "f", "g", "h", "i", "j", "k", "l", "m",
      "n", "o", "p", "q", "r", "s", "t", "u", "v", "w", "x", "y", "z">>

UpperLetters ==
    <<"A", "B", "C", "D", "E", "F", "G", "H", "I", "J", "K", "L", "M",
      "N", "O", "P", "Q", "R", "S", "T", "U", "V", "W", "X", "Y", "Z">>

IsWhitespace(c) == c \in {" ", "\t"}

String_toUpperCase(s) ==
    [i \in 1..Len(s) |->
        IF \E k \in DOMAIN LowerLetters : LowerLetters[k] = s[i]
        THEN UpperLetters[CHOOSE k \in DOMAIN LowerLetters : LowerLetters[k] = s[i]]
        ELSE s[i]]

String_toLowerCase(s) ==
    [i \in 1..Len(s) |->
        IF \E k \in DOMAIN UpperLetters : UpperLetters[k] = s[i]
        THEN LowerLetters[CHOOSE k \in DOMAIN UpperLetters : UpperLetters[k] = s[i]]
        ELSE s[i]]

String_trim(s) ==
    LET kept == {i \in 1..Len(s) : ~IsWhitespace(s[i])}
    IN  IF kept = {} THEN <<>>
        ELSE SubSeq(s, CHOOSE i \in kept : \A j \in kept : i <= j,
                       CHOOSE i \in kept : \A j \in kept : i >= j)

RECURSIVE replaceWhitespaceRuns(_, _)
(* s.replace(/\s+/g, '_') from position i on: every maximal run of         *)
(* whitespace becomes one underscore.                                      *)
replaceWhitespaceRuns(s, i) ==
    IF i > Len(s) THEN <<>>
    ELSE IF ~IsWhitespace(s[i]) THEN <<s[i]>> \o replaceWhitespaceRuns(s, i + 1)
    ELSE IF i > 1 /\ IsWhitespace(s[i - 1]) THEN replaceWhitespaceRuns(s, i + 1)
    ELSE <<"_">> \o replaceWhitespaceRuns(s, i + 1)

(* The spelling of the status literals. *)
chars ==
    [PENDING |-> <<"P", "E", "N", "D", "I", "N", "G">>,
     IN_PROGRESS |-> <<"I", "N", "_", "P", "R", "O", "G", "R", "E", "S", "S">>,
     COMPLETED |-> <<"C", "O", "M", "P", "L", "E", "T", "E", "D">>,
     SCHEDULED |-> <<"S", "C", "H", "E", "D", "U", "L", "E", "D">>,
     FAILED |-> <<"F", "A", "I", "L", "E", "D">>,
     CANCELLED |-> <<"C", "A", "N", "C", "E", "L", "L", "E", "D">>]

JSString(cs) == [kind |-> "string", chars |-> cs]
JSNull == [kind |-> "null", chars |-> <<>>]
JSUndefined == [kind |-> "undefined", chars |-> <<>>]

PlainError == "Error"

(* fromString returns [status, err]; status is the tag whose spelling the  *)
(* returned string has.                                                    *)
fromString(status) ==
    IF status.kind # "string" \/ status.chars = <<>>
    THEN [status |-> TaskStatus_PENDING, err |-> NoError]
    ELSE LET normalized == String_trim(status.chars)
             spelled(cs) == {s \in getAllStatuses : chars[s] = cs}
             found == {s \in getAllStatuses :
                          String_toLowerCase(chars[s]) = String_toLowerCase(normalized)}
             withUnderscores == replaceWhitespaceRuns(String_toUpperCase(normalized), 1)
         IN  IF spelled(normalized) # {}
             THEN [status |-> CHOOSE s \in spelled(normalized) : TRUE, err |-> NoError]
             ELSE IF found # {}
             THEN [status |-> CHOOSE s \in found : TRUE, err |-> NoError]
             ELSE IF spelled(withUnderscores) # {}
             THEN [status |-> CHOOSE s \in spelled(withUnderscores) : TRUE, err |-> NoError]
             ELSE [status |-> Undefined, err |-> PlainError]

(***************************************************************************)
(* Status specification: fromString applied to one input string.           *)
(***************************************************************************)
Separators == {<<"_">>, <<" ">>, <<" ", " ">>, <<"\t">>}

Paddings == {<<>>, <<" ">>}

RECURSIVE withSeparator(_, _, _)
(* The spelling cs with every underscore replaced by the separator sep. *)
withSeparator(cs, sep, i) ==
    IF i > Len(cs) THEN <<>>
    ELSE (IF cs[i] = "_" THEN sep ELSE <<cs[i]>>) \o withSeparator(cs, sep, i + 1)

capitalized(cs) ==
    [i \in 1..Len(cs) |->
        IF i = 1 \/ cs[i - 1] \in {"_", " ", "\t"} THEN cs[i]
        ELSE String_toLowerCase(<<cs[i]>>)[1]]

(* The case variants and legacy spellings of one tag. *)
Variants(tag) ==
    {pad \o cased \o pad :
        pad \in Paddings,
        cased \in UNION {{w, String_toLowerCase(w), capitalized(w)} :
                            w \in {withSeparator(chars[tag], sep, 1) : sep \in Separators}}}

FromStringInputs ==
    {JSNull, JSUndefined, JSString(<<>>), JSString(<<" ">>),
     JSString(<<"I", "n", "v", "a", "l", "i", "d", "S", "t", "a", "t", "u", "s">>),
     JSString(<<"i", "n", "-", "p", "r", "o", "g", "r", "e", "s", "s">>),
     JSString(<<"P", "E", "N", "D", "I", "N", "G", "S">>)}
    \cup {JSString(cs) : cs \in UNION {Variants(tag) : tag \in StatusTags}}

FromStringCall(op, arg, r) ==
    [op |-> op, id |-> NullId, user |-> NullId, arg |-> arg, err |-> r.err,
     from |-> r.status]

InitStatus ==
    /\ now = 1
    /\ task = NoTask
    /\ repo = NoRepo
    /\ response = NoResponse
    /\ inflight = NoRequests
    /\ \E arg \in FromStringInputs :
          last = FromStringCall("input", arg, [status |-> Undefined, err |-> NoError])

FromString ==
    /\ last.op = "input"
    /\ last' = FromStringCall("fromString", last.arg, fromString(last.arg))
    /\ UNCHANGED <<now, task, repo, response, inflight>>

NextStatus == FromString

SpecStatus == InitStatus /\ [][NextStatus]_vars


(***************************************************************************)
(* Concurrent requests.  Node runs a request up to its next await, so a    *)
(* request is a sequence of atomic steps, one per repository query, and    *)
(* the steps of two requests interleave.  inflight[r] is the position and  *)
(* the local variables of request r; last keeps the stored tasks at the    *)
(* start and every status the task t1 has had since.                       *)
(***************************************************************************)
MaxRaceTime == 3
RaceTimes == 1..MaxRaceTime

RequestIds == {"r1", "r2"}

Request(kind, arg) ==
    [kind |-> kind, arg |-> arg, pc |-> "start", tasks |-> <<>>, i |-> 1,
     phase |-> "none", err |-> NoError]

(* The first request is a read with an auto-transition pass, the second a  *)
(* read or a status change by the owner.                                   *)
FirstRequests ==
    {Request("list", NullFilter), Request("list", "IN_PROGRESS"), Request("stats", NullFilter)}

SecondRequests ==
    {Request("list", NullFilter), Request("stats", NullFilter),
     Request("changeStatus", "COMPLETED"), Request("changeStatus", "PENDING"),
     Request("changeStatus", "IN_PROGRESS")}

RaceRows ==
    {row \in Rows :
        /\ row.status \in {"SCHEDULED", "PENDING", "IN_PROGRESS"}
        /\ row.created_at = 1 /\ row.updated_at = 1
        /\ row.start_date = 1 /\ row.deadline \in {NullDate, 1}}

(* TaskModel.update: the first query of repository.update. *)
TaskModel_update(rp, t, clk) ==
    [rp EXCEPT ![t.id] = repositoryUpdateAborted(rp[t.id], t, clk)]

(* TaskModel.updateStatus: the second query of repository.update. *)
TaskModel_updateStatus_unchecked(rp, t, clk) ==
    [repo |-> [rp EXCEPT ![t.id].status = t.status, ![t.id].updated_at = clk],
     err |-> NoError]

TaskModel_updateStatus(rp, t, clk) ==
    IF statusAccepted(t.status)
    THEN [repo |-> [rp EXCEPT ![t.id].status = t.status, ![t.id].updated_at = clk],
          err |-> NoError]
    ELSE [repo |-> rp, err |-> RequestError]

Finished(req, err) == [req EXCEPT !.pc = "done", !.err = err]

RECURSIVE loopBody(_, _)
(* The second test of the loop body for task i: mark it failed and go to   *)
(* repository.update, or go on with the next task.                         *)
markFailedOrNext(req, clk) ==
    LET t == req.tasks[req.i]
    IN  IF shouldBeMarkedAsFailed(t, clk)
        THEN [req EXCEPT !.tasks[req.i] = markAsFailed(t, clk).t,
                         !.pc = "update", !.phase = "failed"]
        ELSE loopBody([req EXCEPT !.i = req.i + 1, !.phase = "none"], clk)

(* The auto-transition loop from task i on, up to its next await: either   *)
(* a repository.update of task i is pending, or the loop is over.          *)
loopBody(req, clk) ==
    IF req.i > Len(req.tasks) THEN Finished(req, NoError)
    ELSE LET t == req.tasks[req.i]
             r == updateStatus(t, "PENDING", clk)
         IN  IF shouldTransitionToPending(t, clk)
             THEN IF r.err # NoError THEN Finished(req, r.err)
                  ELSE [req EXCEPT !.tasks[req.i] = r.t, !.pc = "update", !.phase = "pending"]
             ELSE markFailedOrNext(req, clk)

(* What a request does when its repository.update has returned. *)
afterUpdate(req, clk) ==
    IF req.kind = "changeStatus" THEN Finished(req, NoError)
    ELSE IF req.phase = "pending" THEN markFailedOrNext(req, clk)
    ELSE loopBody([req EXCEPT !.i = req.i + 1, !.phase = "none"], clk)

RaceStep(op, r, req, rp) ==
    /\ inflight' = [inflight EXCEPT ![r] = req]
    /\ repo' = rp
    /\ last' = [last EXCEPT !.op = op, !.id = r,
                            !.history = last.history \cup {rp["t1"].status}]
    /\ UNCHANGED <<now, task, response>>

InitRace ==
    /\ now \in RaceTimes
    /\ repo \in [TaskIds -> RaceRows]
    /\ task = NoTask
    /\ response = NoResponse
    /\ \E a \in FirstRequests, b \in SecondRequests :
          inflight = [r \in RequestIds |-> IF r = "r1" THEN a ELSE b]
    /\ last = [op |-> "none", id |-> NullId, initial |-> repo,
               history |-> {repo["t1"].status}]

TickRace ==
    /\ now < MaxRaceTime
    /\ \E r \in RequestIds : inflight[r].pc # "done"
    /\ now' = now + 1
    /\ UNCHANGED <<task, last, repo, response, inflight>>

(* findByUserId of a list without filter or of the statistics. *)
QueryAll(r) ==
    LET req == inflight[r]
    IN  /\ req.pc = "start"
        /\ req.kind \in {"list", "stats"}
        /\ req.arg = NullFilter
        /\ \E ord \in Orders(repo) :
              LET allTasks == findByUserId(repo, ord, "u1")
                  fetched == IF req.kind = "list"
                             THEN SelectSeq(allTasks, LAMBDA t : t.status # "CANCELLED")
                             ELSE allTasks
              IN  RaceStep("queryAll", r, loopBody([req EXCEPT !.tasks = fetched], now), repo)

(* The first query of the IN_PROGRESS filter. *)
QueryInProgress(r) ==
    LET req == inflight[r]
    IN  /\ req.pc = "start"
        /\ req.kind = "list"
        /\ req.arg = "IN_PROGRESS"
        /\ \E ord \in Orders(repo) :
              RaceStep("queryInProgress", r,
                       [req EXCEPT !.tasks = findByUserIdAndStatus(repo, ord, "u1", "IN_PROGRESS"),
                                   !.pc = "queryPending"],
                       repo)

(* The second query of the IN_PROGRESS filter, and the loop up to its      *)
(* first await.                                                            *)
QueryPending(r) ==
    LET req == inflight[r]
    IN  /\ req.pc = "queryPending"
        /\ \E ord \in Orders(repo) :
              RaceStep("queryPending", r,
                       loopBody([req EXCEPT !.tasks =
                                    req.tasks \o findByUserIdAndStatus(repo, ord, "u1", "PENDING")],
                                now),
                       repo)

(* ChangeTaskStatusUseCase.execute up to repository.update. *)
FindTask(r) ==
    LET req == inflight[r]
        found == findById(repo, "t1")
        u == updateStatus(found, req.arg, now)
    IN  /\ req.pc = "start"
        /\ req.kind = "changeStatus"
        /\ RaceStep("findById", r,
                    IF ~belongsToUser(found, "u1") THEN Finished(req, Unauthorized)
                    ELSE IF u.err # NoError THEN Finished([req EXCEPT !.tasks = <<found>>], u.err)
                    ELSE [req EXCEPT !.tasks = <<u.t>>, !.pc = "update"],
                    repo)

TaskModelUpdate(r) ==
    LET req == inflight[r]
    IN  /\ req.pc = "update"
        /\ RaceStep("TaskModel.update", r, [req EXCEPT !.pc = "updateStatus"],
                    TaskModel_update(repo, req.tasks[req.i], now))

TaskModelUpdateStatus(r) ==
    LET req == inflight[r]
        w == TaskModel_updateStatus(repo, req.tasks[req.i], now)
    IN  /\ req.pc = "updateStatus"
        /\ RaceStep("TaskModel.updateStatus", r,
                    IF w.err # NoError THEN Finished(req, w.err) ELSE afterUpdate(req, now),
                    w.repo)

NextRace ==
    \/ TickRace
    \/ \E r \in RequestIds : QueryAll(r)
    \/ \E r \in RequestIds : QueryInProgress(r)
    \/ \E r \in RequestIds : QueryPending(r)
    \/ \E r \in RequestIds : FindTask(r)
    \/ \E r \in RequestIds : TaskModelUpdate(r)
    \/ \E r \in RequestIds : TaskModelUpdateStatus(r)

SpecRace == InitRace /\ [][NextRace]_vars


(***************************************************************************)
(* API.request of the browser client (src/public/js/api.js 53-102): the   *)
(* retry loop around fetch.  inflight is the one call in progress.         *)
(***************************************************************************)
MaxRetries == 3

(* What one fetch can bring: no response at all, or a response with its    *)
(* status and the error text of its body ("" when the body has none; for   *)
(* a body that is not JSON, the message of the SyntaxError of               *)
(* response.json()).                                                       *)
NoStatus == 0

FetchOutcomes ==
    {[status |-> NoStatus, error |-> "Failed to fetch"],
     [status |-> 200, error |-> ""],
     [status |-> 400, error |-> ""],
     [status |-> 404, error |-> "Task not found"],
     [status |-> 401, error |-> "Request failed: token expired"],
     [status |-> 500, error |-> ""],
     [status |-> 503, error |-> "Database unavailable"],
     [status |-> 502, error |-> "Unexpected token"]}

(* error.message.includes('Request failed') *)
includesRequestFailed(message) ==
    message \in {"Request failed", "Request failed: token expired"}

responseOk(status) == status >= 200 /\ status < 300

(* The Error thrown inside the try block for a fetch outcome, "" if none. *)
thrownMessage(o) ==
    IF o.status = NoStatus THEN o.error
    ELSE IF responseOk(o.status) THEN ""
    ELSE IF o.status >= 400 /\ o.status < 500
    THEN (IF o.error # "" THEN o.error ELSE "Request failed")
    ELSE (IF o.error # "" THEN o.error ELSE "Server error")

ApiCall(retries) ==
    [retries |-> retries, attempt |-> 0, fetches |-> 0, pc |-> "fetch",
     status |-> NoStatus, message |-> ""]

(* One iteration of the loop: the fetch, and the catch block up to the     *)
(* backoff timer.                                                          *)
request(call, o) ==
    LET message == thrownMessage(o)
        fetched == [call EXCEPT !.fetches = call.fetches + 1, !.status = o.status,
                                !.message = message]
    IN  IF o.status # NoStatus /\ responseOk(o.status)
        THEN [fetched EXCEPT !.pc = "returned"]
        ELSE IF call.attempt = call.retries \/ includesRequestFailed(message)
        THEN [fetched EXCEPT !.pc = "thrown"]
        ELSE [fetched EXCEPT !.pc = "backoff"]

ApiStep(op, call) ==
    /\ inflight' = call
    /\ last' = [Started(op) EXCEPT !.err = call.message]
    /\ UNCHANGED <<now, task, repo, response>>

InitApi ==
    /\ now = 1
    /\ task = NoTask
    /\ repo = NoRepo
    /\ response = NoResponse
    /\ last = Started("none")
    /\ \E retries \in 0..MaxRetries : inflight = ApiCall(retries)

Fetch ==
    /\ inflight.pc = "fetch"
    /\ \E o \in FetchOutcomes : ApiStep("fetch", request(inflight, o))

(* The backoff timer fires and the loop goes to its next attempt. *)
Backoff ==
    /\ inflight.pc = "backoff"
    /\ ApiStep("backoff", [inflight EXCEPT !.attempt = inflight.attempt + 1, !.pc = "fetch"])

NextApi == Fetch \/ Backoff

SpecApi == InitApi /\ [][NextApi]_vars


(* C31: fromString maps every case variant and every space-separated       *)
(* legacy variant of each of the six tags to that tag, maps null,          *)
(* undefined and the empty string to PENDING, and fails with a             *)
(* ValidationError for every other string; a returned status is valid.     *)
C31_FromString ==
    last.op = "fromString" =>
        /\ \A tag \in StatusTags :
              last.arg.chars \in Variants(tag) => last.err = NoError /\ last.from = tag
        /\ (last.arg.kind # "string" \/ last.arg.chars = <<>>)
              => last.err = NoError /\ last.from = "PENDING"
        /\ (/\ last.arg.kind = "string"
            /\ last.arg.chars # <<>>
            /\ \A tag \in StatusTags : last.arg.chars \notin Variants(tag))
              => last.err = ValidationError
        /\ last.err = NoError => isValid(last.from)


(* The stored status of t1 after one read request of the kind of req has   *)
(* run alone, at instant clk, on the tasks stored at the start.            *)
AloneStatus(req, clk) ==
    {(IF req.kind = "stats"
      THEN getStatisticsForDisplay(last.initial, ord, "u1", clk)
      ELSE getTaskListForDisplay(last.initial, ord, "u1", req.arg, clk)).repo["t1"].status :
        ord \in Orders(last.initial)}

BothPasses ==
    \A r \in RequestIds : inflight[r].kind \in {"list", "stats"} /\ inflight[r].pc = "done"

C33_RoundTrip ==
    (/\ last.op \in {"updateTask", "markAsInProgress", "reopenTask"}
     /\ last.err = NoError
     /\ last.id \in DOMAIN repo)
        => LET row == repo[last.id]
               t == findById(repo, last.id)
           IN  /\ t.startDate = row.start_date
               /\ t.deadline = row.deadline
               /\ t.createdAt = row.created_at
               /\ t.updatedAt = row.updated_at
               /\ t.status = row.status


(* C34: API.request never retries after a 4xx response, whatever its       *)
(* error text: the error is thrown at once; only a network failure or a    *)
(* 5xx response is followed by another attempt; and a call makes at most   *)
(* retries + 1 fetches.                                                    *)
C34_NoRetryOnClientError ==
    /\ (inflight.status >= 400 /\ inflight.status < 500) => inflight.pc = "thrown"
    /\ inflight.pc = "backoff" => (inflight.status = NoStatus \/ inflight.status >= 500)
    /\ inflight.fetches <= inflight.retries + 1


(* The completion request r2 has persisted COMPLETED and the read r1 is    *)
(* over.                                                                   *)
CompletionPersisted ==
    /\ inflight["r2"].kind = "changeStatus"
    /\ inflight["r2"].arg = "COMPLETED"
    /\ inflight["r2"].pc = "done"
    /\ inflight["r2"].err = NoError
    /\ inflight["r1"].pc = "done"

(* C35: a completion persisted by ChangeTaskStatusUseCase while an         *)
(* auto-transition pass is running is not lost: when both are over the     *)
(* stored task is COMPLETED (not FAILED) and has the title, description    *)
(* and dates that the completion wrote, not those the pass had fetched.    *)
C35_CompletionNotLost ==
    CompletionPersisted =>
        LET row == repo["t1"]
            written == inflight["r2"].tasks[1]
        IN  /\ row.status = "COMPLETED"
            /\ row.title = written.title
            /\ row.description = written.description
            /\ row.start_date = written.startDate
            /\ row.deadline = written.deadline


C37_SameDisplayData ==
    /\ last.op = "calculateDisplayData"
          => response.tasks[1].displayData = enrichTask(task, now).displayData
    /\ last.op = "enrichTask"
          => response.tasks[1].displayData = calculateDisplayData(task, now)


(* C38: the list returned for the IN_PROGRESS filter has each task id at   *)
(* most once, and has the task when its stored status has been             *)
(* IN_PROGRESS or PENDING all along, whatever another request did between  *)
(* the two queries of the call.                                            *)
C38_InProgressListExact ==
    LET req == inflight["r1"]
        ids == [i \in DOMAIN req.tasks |-> req.tasks[i].id]
    IN  (/\ req.kind = "list"
         /\ req.arg = "IN_PROGRESS"
         /\ req.pc = "done"
         /\ req.err = NoError)
            => /\ \A i, j \in DOMAIN ids : ids[i] = ids[j] => i = j
               /\ last.history \subseteq {"IN_PROGRESS", "PENDING"}
                     => \E i \in DOMAIN ids : ids[i] = "t1"


C40_StatisticsPartition ==
    (last.op = "getStatisticsForDisplay" /\ last.err = NoError) =>
        LET st == response.stats
            mine == {id \in DOMAIN repo : repo[id].user_id = last.user}
            with(S) == Cardinality({id \in mine : repo[id].status \in S})
        IN  /\ st.scheduledTasks + st.inProgressTasks + st.completedTasks + st.failedTasks
                  = st.totalTasks
            /\ st.inProgressTasks = with({"IN_PROGRESS", "PENDING"})
            /\ st.pendingTasks <= st.inProgressTasks
            /\ st.cancelledTasks = Cardinality(mine) - st.totalTasks
            /\ st.cancelledTasks = with({"CANCELLED"})

(* Statistics over an IN_PROGRESS and a PENDING task of the same user. *)
C40_Witness ==
    /\ last.op = "getStatisticsForDisplay"
    /\ last.err = NoError
    /\ response.stats.inProgressTasks = 2
    /\ response.stats.pendingTasks = 1
    /\ response.stats.totalTasks = 2

====
